---- MODULE Spec2Model ----
(***************************************************************************)
(* risk_manager.py: the monitor of USDT-M futures positions.  If           *)
(* |positionAmt| * entryPrice > MAX_NOTIONAL the monitor submits a         *)
(* reduce-only market order for the excess, quantized to the exponent of   *)
(* the symbol's LOT_SIZE step.                                             *)
(*                                                                         *)
(* Numbers.  A value parsed by Decimal(<string>) is a record [c, e]: the   *)
(* coefficient and the exponent, value c * 10^e ("0.10" is [c |-> 10,      *)
(* e |-> -2]).  The results of Decimal arithmetic are fractions [n, d].    *)
(* getcontext().prec = 28 rounds every result to 28 significant digits;    *)
(* for the magnitudes used here (coefficients below 10^6) products and     *)
(* differences are exact, and the rounding of the quotient                 *)
(* MAX_NOTIONAL / entry in its 28th digit cannot move the excess across a  *)
(* multiple of 10^e with e >= -2, so the digits that quantize keeps are    *)
(* the digits of the exact fraction.                                       *)
(***************************************************************************)
EXTENDS Integers, Sequences, FiniteSets, TLC

VARIABLES
    pc,         \* where the process is: "main", "load", "fetch", "eval", "sleep", "exited", "crashed"
    steps,      \* monitor's local `steps`: symbol -> LOT_SIZE step (Decimal)
    positions,  \* monitor's local `positions`: the batch of the last successful fetch
    idx,        \* index into positions of the item the for loop handles next
    cycle,      \* the fetch of the current cycle: "none" before the first, "fetched", "fetch_failed"
    visited,    \* indexes of positions the for loop has handled in the current cycle
    submitted,  \* calls of client.futures_create_order made in the current cycle
    log,        \* records written to the log since the current cycle began
    slept,      \* arguments of the time.sleep calls that returned since the last fetch was issued
    memo        \* the first evaluation of a non-flat position the process made, when it is kept

vars == <<pc, steps, positions, idx, cycle, visited, submitted, log, slept, memo>>

----------------------------------------------------------------------------
(* Bounds and inputs *)

MaxBatch == 2

MAX_NOTIONAL == 100

SLEEP_INTERVAL == 5

Dec(c, e) == [c |-> c, e |-> e]

Position(s, amt, price) == [symbol |-> s, positionAmt |-> amt, entryPrice |-> price]

\* items of client.futures_position_information() with positionAmt # 0
OpenPositions ==
    { Position("BTCUSDT", Dec(100, -2),  Dec(100, 0)),    \* long, notional 100
      Position("BTCUSDT", Dec(40, -2),   Dec(300, 0)),    \* long, notional 120, excess 0.066...
      Position("BTCUSDT", Dec(100, -2),  Dec(300, 0)),    \* long, notional 300, excess 0.666...
      Position("XRPUSDT", Dec(90, -2),   Dec(100, 0)),    \* long, notional 90
      Position("XRPUSDT", Dec(-110, -2), Dec(100, 0)) }   \* short, notional 110, excess 0.1

\* a flat item: positionAmt "0.00", entryPrice "0.0"
FlatPositions == { Position("BTCUSDT", Dec(0, -2), Dec(0, -1)) }

PositionRecords == OpenPositions \cup FlatPositions

Batches == UNION { [1..n -> PositionRecords] : n \in 0..MaxBatch }

Filter(t, s) == [filterType |-> t, stepSize |-> s]

\* results of client.futures_exchange_info(): info["symbols"]
ExchangeInfos ==
    { << [symbol |-> "BTCUSDT",
          filters |-> << Filter("MARKET_LOT_SIZE", Dec(1, 0)), Filter("LOT_SIZE", Dec(1, -1)) >>],
         [symbol |-> "XRPUSDT",
          filters |-> << Filter("MARKET_LOT_SIZE", Dec(1, 0)) >>] >>,
      << [symbol |-> "BTCUSDT",
          filters |-> << Filter("LOT_SIZE", Dec(5, -1)), Filter("LOT_SIZE", Dec(1, -1)) >>],
         [symbol |-> "XRPUSDT",
          filters |-> << Filter("LOT_SIZE", Dec(10, -2)) >>] >> }

----------------------------------------------------------------------------
(* Decimal arithmetic *)

RECURSIVE Pow10(_)
Pow10(k) == IF k <= 0 THEN 1 ELSE 10 * Pow10(k - 1)

Abs(x) == IF x < 0 THEN -x ELSE x

Frac(n, d) == [n |-> n, d |-> d]

\* the value of a parsed Decimal as a fraction
ToFrac(x) == IF x.e >= 0 THEN Frac(x.c * Pow10(x.e), 1) ELSE Frac(x.c, Pow10(-x.e))

FracMul(a, b) == Frac(a.n * b.n, a.d * b.d)
FracDiv(a, b) == IF b.n < 0 THEN Frac(-(a.n * b.d), a.d * (-b.n)) ELSE Frac(a.n * b.d, a.d * b.n)
FracSub(a, b) == Frac(a.n * b.d - b.n * a.d, a.d * b.d)
FracAbs(a) == Frac(Abs(a.n), a.d)
FracLess(a, b) == a.n * b.d < b.n * a.d
FracLeq(a, b) == a.n * b.d <= b.n * a.d
FracEq(a, b) == a.n * b.d = b.n * a.d

\* quantize with rounding=ROUND_UP: the coefficient rounded away from zero
quantize_round_up(x, step) ==
    IF step.e >= 0
    THEN Dec((x.n + x.d * Pow10(step.e) - 1) \div (x.d * Pow10(step.e)), step.e)
    ELSE Dec((x.n * Pow10(-step.e) + x.d - 1) \div x.d, step.e)

\* x.quantize(step, rounding=ROUND_DOWN) for x >= 0: the result has the
\* exponent of step and the coefficient truncated toward zero
quantize(x, step) ==
    IF step.e >= 0
    THEN Dec(x.n \div (x.d * Pow10(step.e)), step.e)
    ELSE Dec((x.n * Pow10(-step.e)) \div x.d, step.e)

\* d.normalize(): trailing zeros of the coefficient move into the exponent
RECURSIVE normalize(_)
normalize(x) ==
    IF x.c = 0 THEN Dec(0, 0)
    ELSE IF x.c % 10 = 0 THEN normalize(Dec(x.c \div 10, x.e + 1))
    ELSE x

\* format(d.normalize(), "f"): the plain decimal literal, no exponent
\* notation; [c, e] with e <= 0 stands for the digits of c with -e of them
\* after the point
format_qty(x) ==
    LET n == normalize(x)
    IN  IF n.e > 0 THEN Dec(n.c * Pow10(n.e), 0) ELSE n

----------------------------------------------------------------------------
(* load_step_sizes *)

RECURSIVE FirstLotSize(_, _)
\* index of the first LOT_SIZE filter at or after i, 0 when there is none
FirstLotSize(filters, i) ==
    IF i > Len(filters) THEN 0
    ELSE IF filters[i].filterType = "LOT_SIZE" THEN i
    ELSE FirstLotSize(filters, i + 1)

RECURSIVE load_step_sizes(_, _)
\* the dict `steps` after the first k symbols of info["symbols"]
load_step_sizes(info, k) ==
    IF k = 0 THEN [x \in {} |-> Dec(0, 0)]
    ELSE LET prev == load_step_sizes(info, k - 1)
             s == info[k]
             f == FirstLotSize(s.filters, 1)
         IN  IF f = 0 THEN prev
             ELSE [x \in DOMAIN prev \cup {s.symbol} |->
                     IF x = s.symbol THEN s.filters[f].stepSize ELSE prev[x]]

----------------------------------------------------------------------------
(* Log records *)

LogRec(level, event, sym) == [level |-> level, event |-> event, sym |-> sym]

----------------------------------------------------------------------------
(* monitor: the evaluation of one position p *)

Qty(p) == ToFrac(p.positionAmt)
Entry(p) == ToFrac(p.entryPrice)

\* the zero test is dropped
IsFlat_never(p) == FALSE

\* qty == 0
IsFlat(p) == Qty(p).n = 0

\* notional = abs(qty * entry)
Notional(p) == FracAbs(FracMul(Qty(p), Entry(p)))

\* a symbol that already got an order in this cycle is taken as within the ceiling
WithinCeiling_remembers(p) ==
    \/ FracLeq(Notional(p), Frac(MAX_NOTIONAL, 1))
    \/ \E k \in DOMAIN submitted : submitted[k].args.symbol = p.symbol

\* the comparison turned round: notional >= MAX_NOTIONAL
WithinCeiling_inverted(p) == FracLeq(Frac(MAX_NOTIONAL, 1), Notional(p))

\* notional <= MAX_NOTIONAL
WithinCeiling(p) == FracLeq(Notional(p), Frac(MAX_NOTIONAL, 1))

\* the two sides exchanged
Side_swapped(p) == IF Qty(p).n > 0 THEN "BUY" ELSE "SELL"

\* side = Client.SIDE_SELL if qty > 0 else Client.SIDE_BUY
Side(p) == IF Qty(p).n > 0 THEN "SELL" ELSE "BUY"

\* sign = Decimal(1) if qty > 0 else Decimal(-1)
Sign(p) == IF Qty(p).n > 0 THEN Frac(1, 1) ELSE Frac(-1, 1)

\* the target without the sign of the position
TargetQty_unsigned(p) == FracDiv(Frac(MAX_NOTIONAL, 1), Entry(p))

\* target_qty = (MAX_NOTIONAL / entry) * sign
TargetQty(p) == FracMul(FracDiv(Frac(MAX_NOTIONAL, 1), Entry(p)), Sign(p))

\* excess = qty - target_qty
Excess(p) == FracSub(Qty(p), TargetQty(p))

\* the lookup with a default: steps.get(sym, Decimal("0.01"))
StepsGet_default(st, sym) == IF sym \in DOMAIN st THEN {st[sym]} ELSE {Dec(1, -2)}

\* steps.get(sym): the set holding the step, empty for None
StepsGet(st, sym) == IF sym \in DOMAIN st THEN {st[sym]} ELSE {}

\* close_qty = abs(excess).quantize(step, rounding=ROUND_DOWN)
CloseQty(p, step) == quantize(FracAbs(Excess(p)), step)

\* the comparison with the step is dropped
BelowStep_unchecked(close, step) == FALSE

\* the comparison made inclusive: close_qty <= step
BelowStep_or_equal(close, step) == FracLeq(ToFrac(close), ToFrac(step))

\* close_qty < step
BelowStep(close, step) == FracLess(ToFrac(close), ToFrac(step))

\* the keyword arguments of client.futures_create_order
OrderArgs(p, step) ==
    [symbol |-> p.symbol, side |-> Side(p), type |-> "MARKET",
     quantity |-> format_qty(CloseQty(p, step)), reduceOnly |-> TRUE]

----------------------------------------------------------------------------
(* The process *)

Init ==
    /\ pc = "main"
    /\ steps = [x \in {} |-> Dec(0, 0)]
    /\ positions = << >>
    /\ idx = 1
    /\ cycle = "none"
    /\ visited = {}
    /\ submitted = << >>
    /\ log = << >>
    /\ slept = << >>
    /\ memo = [state |-> "off", p |-> {}, order |-> {}, result |-> ""]

\* the same process with the record of its first evaluation kept: the
\* record is written once and read by no step of the process
HistInit ==
    /\ pc = "main"
    /\ steps = [x \in {} |-> Dec(0, 0)]
    /\ positions = << >>
    /\ idx = 1
    /\ cycle = "none"
    /\ visited = {}
    /\ submitted = << >>
    /\ log = << >>
    /\ slept = << >>
    /\ memo = [state |-> "empty", p |-> {}, order |-> {}, result |-> ""]

\* the evaluation of p ended with the call `order` (none: {}) and `result`
Remember(p, order, result) ==
    memo' = IF memo.state = "empty"
            THEN [state |-> "set", p |-> {p}, order |-> order, result |-> result]
            ELSE memo

\* main: load_api_keys finds both keys; Client is built and monitor is entered
KeysFound ==
    /\ pc = "main"
    /\ pc' = "load"
    /\ UNCHANGED <<steps, positions, idx, cycle, visited, submitted, log>>
    /\ UNCHANGED <<slept, memo>>

\* main: load_api_keys finds no key or no secret: log.error, SystemExit(1)
KeysMissing ==
    /\ pc = "main"
    /\ pc' = "exited"
    /\ log' = Append(log, LogRec("ERROR", "no_api_keys", ""))
    /\ UNCHANGED <<steps, positions, idx, cycle, visited, submitted>>
    /\ UNCHANGED <<slept, memo>>

\* monitor: steps = load_step_sizes(client), then the while loop is entered
StepsLoaded ==
    /\ pc = "load"
    /\ \E info \in ExchangeInfos : steps' = load_step_sizes(info, Len(info))
    /\ log' = Append(log, LogRec("INFO", "loaded_step_sizes", ""))
    /\ pc' = "fetch"
    /\ UNCHANGED <<positions, idx, cycle, visited, submitted>>
    /\ UNCHANGED <<slept, memo>>

\* the failure is swallowed and the loop starts on an empty directory
StepsLoadFails_swallowed ==
    /\ pc = "load"
    /\ pc' = "fetch"
    /\ UNCHANGED <<steps, positions, idx, cycle, visited, submitted, log>>
    /\ UNCHANGED <<slept, memo>>

\* monitor: client.futures_exchange_info() raises; nothing catches it
StepsLoadFails ==
    /\ pc = "load"
    /\ pc' = "crashed"
    /\ UNCHANGED <<steps, positions, idx, cycle, visited, submitted, log>>
    /\ UNCHANGED <<slept, memo>>

\* the for loop goes on after item i: the next item, or time.sleep at the end
NextItem(i) ==
    /\ idx' = i + 1
    /\ pc' = IF i + 1 > Len(positions) THEN "sleep" ELSE "eval"
    /\ visited' = visited \cup {i}

\* positions = client.futures_position_information() returns a batch
FetchReturns ==
    /\ pc = "fetch"
    /\ \E batch \in Batches :
          /\ positions' = batch
          /\ pc' = IF Len(batch) = 0 THEN "sleep" ELSE "eval"
    /\ idx' = 1
    /\ cycle' = "fetched"
    /\ visited' = {}
    /\ submitted' = << >>
    /\ log' = << >>
    /\ UNCHANGED steps
    /\ slept' = << >>
    /\ UNCHANGED memo

\* the handler falls back into the for loop over the batch of the cycle before
FetchApiError_reuses_batch ==
    /\ pc = "fetch"
    /\ pc' = IF Len(positions) = 0 THEN "sleep" ELSE "eval"
    /\ idx' = 1
    /\ cycle' = "fetch_failed"
    /\ visited' = {}
    /\ submitted' = << >>
    /\ log' = << LogRec("ERROR", "api_error", "") >>
    /\ UNCHANGED <<steps, positions>>
    /\ slept' = << >>
    /\ UNCHANGED memo

\* the fetch raises BinanceAPIException: "Binance API error", time.sleep
FetchApiError ==
    /\ pc = "fetch"
    /\ pc' = "sleep"
    /\ cycle' = "fetch_failed"
    /\ visited' = {}
    /\ submitted' = << >>
    /\ log' = << LogRec("ERROR", "api_error", "") >>
    /\ UNCHANGED <<steps, positions, idx>>
    /\ slept' = << >>
    /\ UNCHANGED memo

\* the fetch raises another Exception: "Unexpected error", time.sleep
FetchUnexpected ==
    /\ pc = "fetch"
    /\ pc' = "sleep"
    /\ cycle' = "fetch_failed"
    /\ visited' = {}
    /\ submitted' = << >>
    /\ log' = << LogRec("ERROR", "unexpected_error", "") >>
    /\ UNCHANGED <<steps, positions, idx>>
    /\ slept' = << >>
    /\ UNCHANGED memo

\* qty == 0: continue
SkipFlat ==
    /\ pc = "eval"
    /\ IsFlat(positions[idx])
    /\ NextItem(idx)
    /\ UNCHANGED <<steps, positions, cycle, submitted, log>>
    /\ UNCHANGED <<slept, memo>>

\* notional <= MAX_NOTIONAL: the position is logged, continue
SkipWithinCeiling ==
    /\ pc = "eval"
    /\ LET p == positions[idx]
       IN  /\ ~IsFlat(p)
           /\ WithinCeiling(p)
           /\ log' = Append(log, LogRec("INFO", "position", p.symbol))
    /\ NextItem(idx)
    /\ UNCHANGED <<steps, positions, cycle, submitted>>
    /\ Remember(positions[idx], {}, "none")
    /\ UNCHANGED slept

\* the symbol without a step is skipped without the warning
SkipNoStep_silent ==
    /\ pc = "eval"
    /\ LET p == positions[idx]
       IN  /\ ~IsFlat(p)
           /\ ~WithinCeiling(p)
           /\ StepsGet(steps, p.symbol) = {}
           /\ log' = Append(log, LogRec("INFO", "position", p.symbol))
    /\ NextItem(idx)
    /\ UNCHANGED <<steps, positions, cycle, submitted>>
    /\ Remember(positions[idx], {}, "none")
    /\ UNCHANGED slept

\* the symbol without a step gets a default entry for the cycles to come
SkipNoStep_reloads ==
    /\ pc = "eval"
    /\ LET p == positions[idx]
       IN  /\ ~IsFlat(p)
           /\ ~WithinCeiling(p)
           /\ StepsGet(steps, p.symbol) = {}
           /\ log' = log \o << LogRec("INFO", "position", p.symbol),
                                LogRec("WARNING", "step_not_found", p.symbol) >>
           /\ steps' = [x \in DOMAIN steps \cup {p.symbol} |->
                           IF x = p.symbol THEN Dec(1, 0) ELSE steps[x]]
    /\ NextItem(idx)
    /\ UNCHANGED <<positions, cycle, submitted>>
    /\ Remember(positions[idx], {}, "none")
    /\ UNCHANGED slept

\* step is None: "step size not found, skipping.", continue
SkipNoStep ==
    /\ pc = "eval"
    /\ LET p == positions[idx]
       IN  /\ ~IsFlat(p)
           /\ ~WithinCeiling(p)
           /\ StepsGet(steps, p.symbol) = {}
           /\ log' = log \o << LogRec("INFO", "position", p.symbol),
                                LogRec("WARNING", "step_not_found", p.symbol) >>
    /\ NextItem(idx)
    /\ UNCHANGED <<steps, positions, cycle, submitted>>
    /\ Remember(positions[idx], {}, "none")
    /\ UNCHANGED slept

\* close_qty < step: "excess < step size", continue
SkipBelowStep ==
    /\ pc = "eval"
    /\ LET p == positions[idx]
       IN  /\ ~IsFlat(p)
           /\ ~WithinCeiling(p)
           /\ \E step \in StepsGet(steps, p.symbol) :
                 BelowStep(CloseQty(p, step), step)
           /\ log' = log \o << LogRec("INFO", "position", p.symbol),
                                LogRec("INFO", "excess_below_step", p.symbol) >>
    /\ NextItem(idx)
    /\ UNCHANGED <<steps, positions, cycle, submitted>>
    /\ Remember(positions[idx], {}, "none")
    /\ UNCHANGED slept

\* the call of client.futures_create_order for positions[idx], with its result
Submission(p, step, result) ==
    [pos |-> idx, args |-> OrderArgs(p, step), result |-> result]

\* the order is placed: "closed excess ... (orderId=...)", next item
OrderAccepted ==
    /\ pc = "eval"
    /\ LET p == positions[idx]
       IN  /\ ~IsFlat(p)
           /\ ~WithinCeiling(p)
           /\ \E step \in StepsGet(steps, p.symbol) :
                 /\ ~BelowStep(CloseQty(p, step), step)
                 /\ submitted' = Append(submitted, Submission(p, step, "accepted"))
                 /\ Remember(p, {OrderArgs(p, step)}, "accepted")
           /\ log' = log \o << LogRec("INFO", "position", p.symbol),
                                LogRec("INFO", "closed_excess", p.symbol) >>
    /\ NextItem(idx)
    /\ UNCHANGED <<steps, positions, cycle>>
    /\ UNCHANGED slept

\* the rejected order is sent once more before the loop moves on
OrderRejected_retries ==
    /\ pc = "eval"
    /\ LET p == positions[idx]
       IN  /\ ~IsFlat(p)
           /\ ~WithinCeiling(p)
           /\ \E step \in StepsGet(steps, p.symbol) :
                 /\ ~BelowStep(CloseQty(p, step), step)
                 /\ submitted' = Append(submitted, Submission(p, step, "rejected"))
                 /\ Remember(p, {OrderArgs(p, step)}, "rejected")
           /\ log' = log \o << LogRec("INFO", "position", p.symbol),
                                LogRec("ERROR", "order_rejected", p.symbol) >>
    /\ IF \E k \in DOMAIN submitted : submitted[k].pos = idx
       THEN NextItem(idx)
       ELSE UNCHANGED <<idx, pc, visited>>
    /\ UNCHANGED <<steps, positions, cycle>>
    /\ UNCHANGED slept

\* the rejection handled by the outer handler only: logged, then time.sleep
OrderRejected_aborts ==
    /\ pc = "eval"
    /\ LET p == positions[idx]
       IN  /\ ~IsFlat(p)
           /\ ~WithinCeiling(p)
           /\ \E step \in StepsGet(steps, p.symbol) :
                 /\ ~BelowStep(CloseQty(p, step), step)
                 /\ submitted' = Append(submitted, Submission(p, step, "rejected"))
                 /\ Remember(p, {OrderArgs(p, step)}, "rejected")
           /\ log' = log \o << LogRec("INFO", "position", p.symbol),
                                LogRec("ERROR", "order_rejected", p.symbol) >>
    /\ visited' = visited \cup {idx}
    /\ pc' = "sleep"
    /\ UNCHANGED <<steps, positions, idx, cycle>>
    /\ UNCHANGED slept

\* the call raises BinanceAPIException or BinanceOrderException:
\* "order rejected", next item
OrderRejected ==
    /\ pc = "eval"
    /\ LET p == positions[idx]
       IN  /\ ~IsFlat(p)
           /\ ~WithinCeiling(p)
           /\ \E step \in StepsGet(steps, p.symbol) :
                 /\ ~BelowStep(CloseQty(p, step), step)
                 /\ submitted' = Append(submitted, Submission(p, step, "rejected"))
                 /\ Remember(p, {OrderArgs(p, step)}, "rejected")
           /\ log' = log \o << LogRec("INFO", "position", p.symbol),
                                LogRec("ERROR", "order_rejected", p.symbol) >>
    /\ NextItem(idx)
    /\ UNCHANGED <<steps, positions, cycle>>
    /\ UNCHANGED slept

\* the handler goes straight back to the fetch
OrderUnexpected_nosleep ==
    /\ pc = "eval"
    /\ LET p == positions[idx]
       IN  /\ ~IsFlat(p)
           /\ ~WithinCeiling(p)
           /\ \E step \in StepsGet(steps, p.symbol) :
                 /\ ~BelowStep(CloseQty(p, step), step)
                 /\ submitted' = Append(submitted, Submission(p, step, "failed"))
                 /\ Remember(p, {OrderArgs(p, step)}, "failed")
           /\ log' = log \o << LogRec("INFO", "position", p.symbol),
                                LogRec("ERROR", "unexpected_error", "") >>
    /\ visited' = visited \cup {idx}
    /\ pc' = "fetch"
    /\ UNCHANGED <<steps, positions, idx, cycle>>
    /\ UNCHANGED slept

\* no handler for the exception: it leaves monitor and main
OrderUnexpected_uncaught ==
    /\ pc = "eval"
    /\ LET p == positions[idx]
       IN  /\ ~IsFlat(p)
           /\ ~WithinCeiling(p)
           /\ \E step \in StepsGet(steps, p.symbol) :
                 /\ ~BelowStep(CloseQty(p, step), step)
                 /\ submitted' = Append(submitted, Submission(p, step, "failed"))
                 /\ Remember(p, {OrderArgs(p, step)}, "failed")
           /\ log' = Append(log, LogRec("INFO", "position", p.symbol))
    /\ visited' = visited \cup {idx}
    /\ pc' = "crashed"
    /\ UNCHANGED <<steps, positions, idx, cycle>>
    /\ UNCHANGED slept

\* the call raises an Exception the inner handler does not name (a transport
\* error, a malformed response): the outer handler logs "Unexpected error"
\* and sleeps; the rest of the batch is left
OrderUnexpected ==
    /\ pc = "eval"
    /\ LET p == positions[idx]
       IN  /\ ~IsFlat(p)
           /\ ~WithinCeiling(p)
           /\ \E step \in StepsGet(steps, p.symbol) :
                 /\ ~BelowStep(CloseQty(p, step), step)
                 /\ submitted' = Append(submitted, Submission(p, step, "failed"))
                 /\ Remember(p, {OrderArgs(p, step)}, "failed")
           /\ log' = log \o << LogRec("INFO", "position", p.symbol),
                                LogRec("ERROR", "unexpected_error", "") >>
    /\ visited' = visited \cup {idx}
    /\ pc' = "sleep"
    /\ UNCHANGED <<steps, positions, idx, cycle>>
    /\ UNCHANGED slept

\* time.sleep(SLEEP_INTERVAL) returns: the next iteration of while True
Sleep ==
    /\ pc = "sleep"
    /\ pc' = "fetch"
    /\ UNCHANGED <<steps, positions, idx, cycle, visited, submitted, log>>
    /\ slept' = Append(slept, SLEEP_INTERVAL)
    /\ UNCHANGED memo

----------------------------------------------------------------------------
(* Vocabulary of the properties, stated on the strings the venue sent *)

Ceiling == Frac(MAX_NOTIONAL, 1)

AbsQty(p) == FracAbs(ToFrac(p.positionAmt))

NonFlat(p) == p.positionAmt.c # 0

\* abs(signedQuantity * entryPrice)
ExactNotional(p) == FracMul(AbsQty(p), FracAbs(ToFrac(p.entryPrice)))

OverCeiling(p) == FracLess(Ceiling, ExactNotional(p))

\* abs(signedQuantity - targetQuantity) of an over-ceiling position, where
\* targetQuantity = sign(signedQuantity) * ceiling / entryPrice
ExactExcess(p) == FracSub(AbsQty(p), FracDiv(Ceiling, ToFrac(p.entryPrice)))

\* the value of the quantity string of a submission
QuantityOf(s) == ToFrac(s.args.quantity)

\* a is an integer multiple of b (b > 0)
IsMultiple(a, b) == (a.n * b.d) % (b.n * a.d) = 0

\* the submissions of the current cycle made for item i of the batch
OrdersFor(i) == { k \in DOMAIN submitted : submitted[k].pos = i }

KnownStep(p) == p.symbol \in DOMAIN steps

\* the excess of an over-ceiling position with a known step is at least
\* one step
AtLeastOneStep(p) == ~FracLess(ExactExcess(p), ToFrac(steps[p.symbol]))

\* the position a submission was computed from
PositionOf(s) == positions[s.pos]

Next ==
    \/ KeysFound \/ KeysMissing \/ StepsLoaded \/ StepsLoadFails
    \/ FetchReturns \/ FetchApiError \/ FetchUnexpected
    \/ SkipFlat \/ SkipWithinCeiling \/ SkipNoStep \/ SkipBelowStep
    \/ OrderAccepted \/ OrderRejected \/ OrderUnexpected
    \/ Sleep

Spec == Init /\ [][Next]_vars

\* every call into the client returns or raises, and time.sleep returns
LiveSpec == Spec /\ WF_vars(Next)

\* the process with the record of its first evaluation kept
HistSpec == HistInit /\ [][Next]_vars

----------------------------------------------------------------------------
(* C1: no order is submitted for a non-flat position whose notional is     *)
(* less than or equal to the ceiling, equality included, whatever the step *)
(* and whether or not the symbol has one.                                  *)
C1_NoOrderWithinCeiling ==
    \A i \in DOMAIN positions :
        (cycle = "fetched" /\ NonFlat(positions[i]) /\ ~OverCeiling(positions[i]))
            => OrdersFor(i) = {}

\* a position with notional exactly at the ceiling and one strictly below
\* it have been handled, one with a known step and one without
C1_Witness ==
    /\ cycle = "fetched"
    /\ pc = "sleep"
    /\ \E i, j \in visited :
          /\ NonFlat(positions[i]) /\ NonFlat(positions[j])
          /\ FracEq(ExactNotional(positions[i]), Ceiling)
          /\ FracLess(ExactNotional(positions[j]), Ceiling)
          /\ KnownStep(positions[i])
          /\ ~KnownStep(positions[j])

(* C2: every submitted quantity is strictly positive and an integer        *)
(* multiple of the stepSize recorded for its symbol, for every step size   *)
(* the metadata can supply.                                                *)
C2_QuantityMultipleOfStep ==
    \A k \in DOMAIN submitted :
        /\ submitted[k].args.quantity.c > 0
        /\ KnownStep(PositionOf(submitted[k]))
        /\ IsMultiple(QuantityOf(submitted[k]), ToFrac(steps[submitted[k].args.symbol]))

(* C3: truncation never over-corrects: 0 <= excess - q < stepSize for      *)
(* every submitted quantity q, so that a full fill leaves a notional of at *)
(* least the ceiling and less than ceiling + stepSize * entryPrice.        *)
C3_TruncationNeverOverCorrects ==
    \A k \in DOMAIN submitted :
        LET p == PositionOf(submitted[k])
            q == QuantityOf(submitted[k])
            st == ToFrac(steps[p.symbol])
            rest == FracSub(ExactExcess(p), q)
            left == FracMul(FracSub(AbsQty(p), q), ToFrac(p.entryPrice))
        IN  /\ OverCeiling(p)
            /\ FracLeq(Frac(0, 1), rest)
            /\ FracLess(rest, st)
            /\ FracLeq(Ceiling, left)
            /\ FracLess(left, FracSub(Ceiling, FracMul(Frac(-1, 1), FracMul(st, ToFrac(p.entryPrice)))))

\* an order whose quantity is strictly below the excess: digits were cut
C3_Witness ==
    \E k \in DOMAIN submitted :
        /\ FracLess(QuantityOf(submitted[k]), ExactExcess(PositionOf(submitted[k])))
        /\ PositionOf(submitted[k]).positionAmt.c > 0

(* C4: every order only trims the position it was computed from: it is     *)
(* reduce-only, its side is opposite to the position's direction and its   *)
(* quantity is strictly less than abs(signedQuantity).                     *)
C4_OrderOnlyTrims ==
    \A k \in DOMAIN submitted :
        LET p == PositionOf(submitted[k])
            a == submitted[k].args
        IN  /\ a.reduceOnly = TRUE
            /\ a.symbol = p.symbol
            /\ (p.positionAmt.c > 0 => a.side = "SELL")
            /\ (p.positionAmt.c < 0 => a.side = "BUY")
            /\ FracLess(Frac(0, 1), ToFrac(a.quantity))
            /\ FracLess(ToFrac(a.quantity), AbsQty(p))

\* an order for a short position
C4_Witness ==
    \E k \in DOMAIN submitted :
        /\ PositionOf(submitted[k]).positionAmt.c < 0
        /\ submitted[k].result = "accepted"

(* C5: sign correctness: an order for a long position is a SELL, an order  *)
(* for a short position is a BUY, and no other side is sent.               *)
C5_SignCorrectness ==
    \A k \in DOMAIN submitted :
        submitted[k].args.side =
            IF PositionOf(submitted[k]).positionAmt.c > 0 THEN "SELL" ELSE "BUY"

\* one cycle has sent a SELL for a long and a BUY for a short position
C5_Witness ==
    \E k, m \in DOMAIN submitted :
        /\ PositionOf(submitted[k]).positionAmt.c > 0
        /\ submitted[k].args.side = "SELL"
        /\ PositionOf(submitted[m]).positionAmt.c < 0
        /\ submitted[m].args.side = "BUY"

(* C6, as stated: a rejected or failed submission does not abort the       *)
(* cycle; every position after it in the batch is still evaluated and      *)
(* gets its own order if it is over the ceiling with a known step.         *)
C6_FailedSubmissionNeverAborts ==
    (pc = "sleep" /\ cycle = "fetched") =>
        \A k \in DOMAIN submitted :
            submitted[k].result \in {"rejected", "failed"} =>
                \A j \in (submitted[k].pos + 1)..Len(positions) :
                    /\ j \in visited
                    /\ (NonFlat(positions[j]) /\ OverCeiling(positions[j]) /\ KnownStep(positions[j]))
                          => OrdersFor(j) # {}

\* no submission before item j of the batch has failed with an exception
\* other than the venue's two
NoFailureBefore(j) ==
    \A k \in DOMAIN submitted : submitted[k].pos < j => submitted[k].result # "failed"

\* an order is due for a position: non-flat, over the ceiling, a known step
\* and an excess of at least one step
OrderDue(p) ==
    /\ NonFlat(p)
    /\ OverCeiling(p)
    /\ KnownStep(p)
    /\ AtLeastOneStep(p)

\* the step that appends a rejected submission
RejectionStep ==
    /\ Len(submitted') = Len(submitted) + 1
    /\ submitted'[Len(submitted')].result = "rejected"

(* C6, amended: a submission rejected with BinanceAPIException or          *)
(* BinanceOrderException is logged and the for loop goes on with the next  *)
(* position; up to the first submission that fails with another exception  *)
(* every following position is evaluated, and gets its own order exactly   *)
(* when it is over the ceiling with a known step and an excess of at least *)
(* one step.                                                               *)
C6_RejectedOrderDoesNotAbort ==
    /\ []((pc = "sleep" /\ cycle = "fetched") =>
            \A k \in DOMAIN submitted :
                submitted[k].result = "rejected" =>
                    \A j \in (submitted[k].pos + 1)..Len(positions) :
                        NoFailureBefore(j) =>
                            /\ j \in visited
                            /\ (OrdersFor(j) # {}) <=> OrderDue(positions[j]))
    /\ [][RejectionStep =>
            /\ log' = log \o << LogRec("INFO", "position", positions[idx].symbol),
                                 LogRec("ERROR", "order_rejected", positions[idx].symbol) >>
            /\ idx' = idx + 1
            /\ pc' = IF idx < Len(positions) THEN "eval" ELSE "sleep"]_vars

\* the first order of a cycle was rejected and the position after it got
\* its own order
C6_Witness ==
    /\ pc = "sleep"
    /\ cycle = "fetched"
    /\ Len(submitted) = 2
    /\ submitted[1].result = "rejected"
    /\ submitted[1].pos = 1
    /\ submitted[2].pos = 2

(* C7: when the position fetch of a cycle fails, the cycle evaluates no    *)
(* position and submits no order, the batch of the cycle before is not     *)
(* used, the failure is logged, and after one sleep the next cycle starts  *)
(* with a new fetch.                                                       *)
C7_FetchFailureAbortsCycle ==
    /\ [](cycle = "fetch_failed" =>
            /\ pc \in {"sleep", "fetch"}
            /\ visited = {}
            /\ submitted = << >>
            /\ Len(log) = 1
            /\ log[1].level = "ERROR")
    /\ [][(pc = "fetch" /\ cycle' = "fetch_failed") => pc' = "sleep"]_vars
    /\ [][(pc = "sleep" /\ cycle = "fetch_failed") => pc' = "fetch"]_vars
    /\ [][(pc = "fetch" /\ pc' = "eval") =>
            (cycle' = "fetched" /\ idx' = 1 /\ visited' = {})]_vars

\* a fetch has failed while the batch of an earlier cycle is still held, and
\* the loop is back at the fetch
C7_Witness ==
    /\ cycle = "fetch_failed"
    /\ pc = "fetch"
    /\ Len(positions) > 0

(* C8: once the loop runs, no venue-side error ends it: whatever fetches   *)
(* and submissions fail, the loop is at the position fetch again and       *)
(* again.                                                                  *)
C8_LoopAlwaysPollsAgain ==
    [](pc \in {"fetch", "eval", "sleep"} => []<>(pc = "fetch"))

\* the loop is back at the fetch after a cycle that an unexpected error of
\* a submission cut short
C8_Witness ==
    /\ pc = "fetch"
    /\ \E k \in DOMAIN submitted : submitted[k].result = "failed"

(* C9: no order is ever submitted for a symbol absent from the directory;  *)
(* an over-ceiling position of such a symbol gets one warning, nothing is  *)
(* raised and the loop goes on with the next position.                     *)
C9_NoOrderWithoutStep ==
    /\ [](\A k \in DOMAIN submitted : submitted[k].args.symbol \in DOMAIN steps)
    /\ [][(/\ pc = "eval"
           /\ NonFlat(positions[idx])
           /\ OverCeiling(positions[idx])
           /\ ~KnownStep(positions[idx])) =>
            /\ submitted' = submitted
            /\ log' = log \o << LogRec("INFO", "position", positions[idx].symbol),
                                 LogRec("WARNING", "step_not_found", positions[idx].symbol) >>
            /\ idx' = idx + 1
            /\ pc' = IF idx < Len(positions) THEN "eval" ELSE "sleep"]_vars

\* an over-ceiling position without a step was skipped and the position
\* after it got its order
C9_Witness ==
    /\ cycle = "fetched"
    /\ \E i, j \in visited :
          /\ i < j
          /\ NonFlat(positions[i])
          /\ OverCeiling(positions[i])
          /\ ~KnownStep(positions[i])
          /\ OrdersFor(i) = {}
          /\ OrdersFor(j) # {}

(* C10: for an over-ceiling position with a known step, an excess of       *)
(* exactly one step yields an order of exactly one step and an excess      *)
(* below one step yields no order.                                         *)
C10_Boundary ==
    \A i \in visited :
        LET p == positions[i]
        IN  (NonFlat(p) /\ OverCeiling(p) /\ KnownStep(p)) =>
                /\ FracEq(ExactExcess(p), ToFrac(steps[p.symbol])) =>
                      /\ OrdersFor(i) # {}
                      /\ \A k \in OrdersFor(i) :
                            FracEq(QuantityOf(submitted[k]), ToFrac(steps[p.symbol]))
                /\ FracLess(ExactExcess(p), ToFrac(steps[p.symbol])) =>
                      OrdersFor(i) = {}

\* one cycle has handled an excess of exactly one step and an excess below
\* one step
C10_Witness ==
    \E i, j \in visited :
        /\ NonFlat(positions[i]) /\ OverCeiling(positions[i]) /\ KnownStep(positions[i])
        /\ NonFlat(positions[j]) /\ OverCeiling(positions[j]) /\ KnownStep(positions[j])
        /\ FracEq(ExactExcess(positions[i]), ToFrac(steps[positions[i].symbol]))
        /\ OrdersFor(i) # {}
        /\ FracLess(ExactExcess(positions[j]), ToFrac(steps[positions[j].symbol]))
        /\ OrdersFor(j) = {}

----------------------------------------------------------------------------
(* C12: startup failures are fatal and precede all trading. When the      *)
(* credentials are missing the process exits from main, and when the      *)
(* exchange-metadata fetch raises the process leaves monitor: in both     *)
(* cases no step follows, and no position was fetched and no order        *)
(* submitted.                                                             *)
StartupFailed == pc \in {"exited", "crashed"}

\* load_api_keys logged the missing keys
CredentialsMissing == pc = "main" /\ log' # log

\* the startup load went by without the "loaded %d step sizes" record
MetadataFetchFails == pc = "load" /\ log' = log

NoTrading == cycle = "none" /\ positions = << >> /\ submitted = << >>

C12_StartupFailuresAreFatal ==
    /\ [](StartupFailed => NoTrading /\ DOMAIN steps = {})
    /\ [][ /\ CredentialsMissing => pc' = "exited"
           /\ MetadataFetchFails => pc' = "crashed"
           /\ ~StartupFailed ]_vars

\* the metadata fetch has raised out of monitor
C12_Witness ==
    /\ pc = "crashed"
    /\ NoTrading
    /\ log = << >>

----------------------------------------------------------------------------
(* C14: the directory of step sizes is written once and then frozen. The  *)
(* exchange metadata is loaded once, from startup and before the first    *)
(* position fetch, and no step of the loop adds, removes or changes an    *)
(* entry. The ceiling is the constant MAX_NOTIONAL.                       *)
InLoop == pc \in {"fetch", "eval", "sleep"}

C14_DirectoryFrozen ==
    [][ /\ steps' # steps => pc = "load"
        /\ InLoop => steps' = steps
        /\ pc' = "load" => pc = "main"
        /\ (pc' = "fetch" /\ ~InLoop) => pc = "load" ]_vars

\* a cycle with a missing-lot-size skip and an order rejection is over and
\* the directory is the one the startup load built
C14_Witness ==
    /\ pc = "fetch"
    /\ cycle = "fetched"
    /\ \E k \in DOMAIN log : log[k].event = "step_not_found"
    /\ \E k \in DOMAIN log : log[k].event = "order_rejected"
    /\ \E info \in ExchangeInfos : steps = load_step_sizes(info, Len(info))

----------------------------------------------------------------------------
(* C13: the cadence is fixed. Between a position fetch and the next one    *)
(* exactly one sleep of the configured interval returns, whether the cycle *)
(* ran to the end of the batch, was cut short by a failed fetch or by an   *)
(* unexpected error part-way through the batch: the loop never fetches     *)
(* again without a sleep and never sleeps twice in a row.                  *)
AFetchWasIssued == cycle # "none"

C13_FixedCadence ==
    /\ (pc = "fetch" /\ AFetchWasIssued) => slept = << SLEEP_INTERVAL >>
    /\ pc \in {"eval", "sleep"} => slept = << >>
    /\ Len(slept) <= 1

\* the loop is about to fetch again, one sleep after an unexpected error
\* left the batch part-way
C13_Witness ==
    /\ pc = "fetch"
    /\ slept = << SLEEP_INTERVAL >>
    /\ cycle = "fetched"
    /\ Len(submitted) = 1
    /\ submitted[1].result = "failed"
    /\ submitted[1].pos < Len(positions)

----------------------------------------------------------------------------
(* C16: a flat position of the batch is ignored: its evaluation submits no *)
(* order and writes no log record, error or other, and goes on to the next *)
(* item of the batch, with entry price 0 too.                              *)
AtFlatItem == pc = "eval" /\ ~NonFlat(positions[idx])

GoesOn ==
    /\ idx' = idx + 1
    /\ pc' = IF idx < Len(positions) THEN "eval" ELSE "sleep"
    /\ cycle' = cycle

C16_FlatPositionsIgnored ==
    /\ [](\A i \in DOMAIN positions :
             (cycle = "fetched" /\ ~NonFlat(positions[i])) => OrdersFor(i) = {})
    /\ [][ AtFlatItem => (log' = log /\ submitted' = submitted /\ GoesOn) ]_vars

\* a flat position with entry price 0 went by without a record and the
\* position after it got its order
C16_Witness ==
    /\ cycle = "fetched"
    /\ Len(positions) = 2
    /\ visited = {1, 2}
    /\ ~NonFlat(positions[1])
    /\ positions[1].entryPrice.c = 0
    /\ OrdersFor(2) # {}
    /\ Len(log) = 2
    /\ \A k \in DOMAIN log : log[k].sym = positions[2].symbol

----------------------------------------------------------------------------
(* C17: within one cycle at most one order is submitted for each position  *)
(* of the batch, the submissions follow the order of the batch, each is     *)
(* over before the next item is evaluated, a failed submission is not       *)
(* repeated, and the next fetch is issued only when the cycle is over.      *)
Last(seq) == seq[Len(seq)]

CycleOver ==
    \/ cycle # "fetched"
    \/ visited = DOMAIN positions
    \/ (submitted # << >> /\ Last(submitted).result = "failed")

C17_OneOrderPerPositionInBatchOrder ==
    /\ \A i \in DOMAIN positions : Cardinality(OrdersFor(i)) <= 1
    /\ \A k, l \in DOMAIN submitted : k < l => submitted[k].pos < submitted[l].pos
    /\ \A k \in DOMAIN submitted : submitted[k].pos \in visited
    /\ \E n \in 0..Len(positions) : visited = 1..n
    /\ pc = "eval" => (idx \notin visited /\ visited = 1..(idx - 1))
    /\ pc \in {"sleep", "fetch"} => CycleOver

\* a cycle of two orders is over: the first was rejected and not repeated,
\* the second followed it
C17_Witness ==
    /\ pc = "fetch"
    /\ cycle = "fetched"
    /\ Len(submitted) = 2
    /\ submitted[1].result = "rejected"
    /\ submitted[2].result = "accepted"
    /\ visited = {1, 2}

----------------------------------------------------------------------------
(* C18 as stated: every handled error has its one error or warning record, *)
(* every evaluated non-flat position has its one position record, and      *)
(* every order submission has its one record, of an accepted order or of a *)
(* rejected one. It does not hold: a submission that raises an exception   *)
(* other than the two Binance ones leaves the record of an unexpected      *)
(* error, and no record of acceptance or rejection.                        *)
Records(seq, events) == { k \in DOMAIN seq : seq[k].event \in events }

Evaluated == { i \in visited : NonFlat(positions[i]) }

MissingLotSize(p) == NonFlat(p) /\ OverCeiling(p) /\ ~KnownStep(p)

C18_EverySubmissionLoggedAcceptedOrRejected ==
    /\ cycle = "fetch_failed" => (Len(log) = 1 /\ log[1].level = "ERROR")
    /\ cycle = "fetched" =>
          /\ Cardinality(Records(log, {"position"})) = Cardinality(Evaluated)
          /\ Cardinality(Records(log, {"step_not_found"}))
                = Cardinality({ i \in visited : MissingLotSize(positions[i]) })
          /\ Cardinality(Records(log, {"closed_excess", "order_rejected"}))
                = Len(submitted)

(* C18: no error goes without a record and every action is logged. Each    *)
(* step of the loop writes at most one error or warning record; a failed   *)
(* fetch writes one error record; the evaluation of a non-flat position    *)
(* writes one position record; a missing lot size writes one warning; and  *)
(* a submission writes exactly one record besides: of the accepted order,  *)
(* of the rejection, or, when the call raises any other exception, of the  *)
(* unexpected error.                                                       *)
Written == IF pc = "fetch" THEN log' ELSE SubSeq(log', Len(log) + 1, Len(log'))

Only(seq, events, n) == Cardinality(Records(seq, events)) = n

Alarms(seq) == { k \in DOMAIN seq : seq[k].level \in {"ERROR", "WARNING"} }

RecordOf(result) ==
    CASE result = "accepted" -> "closed_excess"
      [] result = "rejected" -> "order_rejected"
      [] result = "failed"   -> "unexpected_error"

Submits == Len(submitted') = Len(submitted) + 1

C18_EveryActionLogged ==
    [][ /\ Cardinality(Alarms(Written)) <= 1
        /\ (pc = "fetch" /\ cycle' = "fetch_failed") =>
              (Len(Written) = 1 /\ Written[1].level = "ERROR")
        /\ (pc = "eval" /\ NonFlat(positions[idx])) =>
              (Only(Written, {"position"}, 1) /\ Written[1].sym = positions[idx].symbol)
        /\ (pc = "eval" /\ MissingLotSize(positions[idx])) =>
              (Only(Written, {"step_not_found"}, 1) /\ Cardinality(Alarms(Written)) = 1)
        /\ (pc = "eval" /\ Submits) =>
              /\ Len(Written) = 2
              /\ Written[2].event = RecordOf(Last(submitted').result)
              /\ Written[2].level = (IF Last(submitted').result = "accepted"
                                     THEN "INFO" ELSE "ERROR")
        /\ (pc = "eval" /\ ~Submits) =>
              Only(Written, {"closed_excess", "order_rejected", "unexpected_error"}, 0) ]_vars

\* one cycle has logged a missing lot size and the unexpected error of a
\* submission
C18_Witness ==
    /\ cycle = "fetched"
    /\ pc = "sleep"
    /\ Len(submitted) = 1
    /\ submitted[1].result = "failed"
    /\ Only(log, {"step_not_found"}, 1)
    /\ Only(log, {"unexpected_error"}, 1)
    /\ Only(log, {"position"}, 2)

----------------------------------------------------------------------------
(* C11: the decision for a position, no order or the arguments of the one  *)
(* order, is the same every time a cycle sees that position, whatever the  *)
(* cycles before it fetched, submitted or failed on: each evaluation of    *)
(* the position the process evaluated first ends as that first one did.    *)
Ordered == { submitted'[k].args : k \in (Len(submitted) + 1)..Len(submitted') }

SeenBefore == pc = "eval" /\ memo.state = "set" /\ positions[idx] \in memo.p

C11_SamePositionSameDecision ==
    [][ SeenBefore => Ordered = memo.order ]_vars

\* the first submission for a position failed with an unexpected error and
\* cut its cycle short; a later cycle saw the same position alone and
\* submitted the same order, which was accepted
C11_Witness ==
    /\ memo.state = "set"
    /\ memo.result = "failed"
    /\ pc = "sleep"
    /\ cycle = "fetched"
    /\ Len(positions) = 1
    /\ positions[1] \in memo.p
    /\ Len(submitted) = 1
    /\ submitted[1].result = "accepted"
    /\ submitted[1].args \in memo.order

----------------------------------------------------------------------------
(* C15: one correction suffices. When the order computed for a position    *)
(* was accepted and is filled in full, so that the position comes back     *)
(* with its absolute quantity smaller by exactly the order quantity and    *)
(* the same symbol, direction and entry price, no order is submitted for   *)
(* it.                                                                     *)
FilledInFull(p, o, r) ==
    /\ r.symbol = p.symbol
    /\ r.entryPrice = p.entryPrice
    /\ (r.positionAmt.c > 0) = (p.positionAmt.c > 0)
    /\ FracEq(AbsQty(r), FracSub(AbsQty(p), ToFrac(o.quantity)))

C15_OneCorrectionSuffices ==
    (memo.state = "set" /\ memo.result = "accepted" /\ cycle = "fetched") =>
        \A p \in memo.p, o \in memo.order, i \in DOMAIN positions :
            FilledInFull(p, o, positions[i]) => OrdersFor(i) = {}

\* a later cycle fetched the trimmed position alone and left it as it is
C15_Witness ==
    /\ memo.state = "set"
    /\ memo.result = "accepted"
    /\ cycle = "fetched"
    /\ pc = "sleep"
    /\ Len(positions) = 1
    /\ \E p \in memo.p, o \in memo.order : FilledInFull(p, o, positions[1])
    /\ submitted = << >>
    /\ \E k \in DOMAIN log : log[k].event = "excess_below_step"

====
